---- MODULE Spec2Model ----
(***************************************************************************)
(* State-machine model of timeapp-api (src/main.py): a FastAPI service     *)
(* with an optional PostgreSQL connection `pg`, an optional Redis client   *)
(* `r` and the in-process counter `memory_counters`.  Every request        *)
(* handler is one atomic action (requests are taken one at a time); the    *)
(* environment actions model the two servers going down and coming back   *)
(* and the PG_DSN environment variable being set after the import.         *)
(***************************************************************************)
EXTENDS Integers, Sequences, FiniteSets, TLC

\* ---- bounds of the model ------------------------------------------------
MaxCount == 1      \* cap on each of the three visit counters
MaxId    == 2      \* cap on the values drawn from users.id's SERIAL sequence

\* ---- values -------------------------------------------------------------
None   == "None"   \* Python None for the two module-level handles
NoRow  == -1       \* site_counters has no row with id = 1 / Redis key absent
NoUid  == 0        \* no access_token cookie was set (SERIAL ids start at 1)

\* e-mail addresses are sequences of characters so that LOWER() is computed
Emails    == { <<"A", "x">>, <<"a", "X">>, <<"b", "x">> }
Passwords == { "p", "q" }
Salts     == { "s1" }

LowerChar(c) ==
    CASE c = "A" -> "a"
      [] c = "B" -> "b"
      [] c = "X" -> "x"
      [] OTHER   -> c

\* SQL LOWER(%s), as the INSERT and the SELECT apply it to the parameter
Lower(s) == [i \in DOMAIN s |-> LowerChar(s[i])]

\* bcrypt.hashpw(password, salt): the hash carries its salt
hashpw(p, salt) == <<salt, p>>

\* bcrypt.checkpw(password, hash): re-hash with the hash's salt and compare
checkpwAlways(p, h) == TRUE
checkpw(p, h) == hashpw(p, h[1]) = h

VARIABLES
    envPgDsn,         \* the process environment has PG_DSN set
    PG_DSN,           \* module constant read from the environment at import
    REDIS_URL,        \* module constant read from the environment at import
    pgUp,             \* the PostgreSQL server is reachable
    redisUp,          \* the Redis server is reachable
    pg,               \* module global pg: None or "conn"
    pgClosed,         \* the psycopg2 connection held in pg is broken/closed
    pgTxn,            \* its transaction status: "idle", "intrans", "inerror"
    r,                \* module global r: None or "client"
    users,            \* rows of table users
    nextId,           \* next value of the users.id SERIAL sequence
    siteTotal,        \* site_counters.total of the row id = 1, or NoRow
    redisVal,         \* value of the Redis key visits:total, or NoRow
    memory_counters,  \* memory_counters["visits_total"]
    resp,             \* the request just handled and its response
    lastTotal,        \* the latest successful GET /metrics/total answer
    prevTotal         \* the successful GET /metrics/total answer before it

vars == << envPgDsn, PG_DSN, REDIS_URL, pgUp, redisUp, pg, pgClosed, pgTxn, r,
           users, nextId, siteTotal, redisVal, memory_counters, resp, lastTotal,
           prevTotal >>

envVars == << envPgDsn, PG_DSN, REDIS_URL, pgUp, redisUp >>

\* ---- responses ----------------------------------------------------------
\* The endpoint just called (op) and what came back: the
\* HTTP status, the body's fields (ok / total / pgField, redisField), the uid
\* carried by the access_token cookie, the source that answered a total, and
\* the number of try_connect_pg() calls the handler made.
NoResponse ==
    [ op |-> "none", status |-> 0, ok |-> FALSE, total |-> NoRow, uid |-> NoUid,
      src |-> "-", connects |-> 0,
      pgField |-> FALSE, redisField |-> FALSE ]

NoTotal == [src |-> "-", total |-> NoRow]

\* ---- the PostgreSQL adapter --------------------------------------------
\* A connection state: the handle, psycopg2's closed flag and transaction
\* status, and site_counters.total as the statements run so far leave it.
ConnState(h, closed, txn, site) ==
    [ pg |-> h, closed |-> closed, txn |-> txn, site |-> site ]

\* try_connect_pg(): no DSN -> None; connect + CREATE TABLE IF NOT EXISTS +
\* INSERT ... ON CONFLICT DO NOTHING + commit -> the connection; any
\* exception -> pg = None.  It is only ever called while pg is None.
try_connect_pg(dsn, up, site) ==
    IF ~dsn THEN ConnState(None, FALSE, "idle", site)
    ELSE IF up
         THEN ConnState("conn", FALSE, "idle", IF site = NoRow THEN 0 ELSE site)
         ELSE ConnState(None, FALSE, "idle", site)

\* try_connect_redis(): no URL -> None; from_url + ping -> the client;
\* any exception -> r = None.
try_connect_redis(url, up) ==
    IF ~url THEN None ELSE IF up THEN "client" ELSE None

\* require_pg(), first test: `if not pg: try_connect_pg()`
NeedsConnectNever(h) == FALSE
NeedsConnect(h) == h = None

\* require_pg(), second test: `if not pg: raise HTTPException(503)`
Raises503Never(h) == FALSE
Raises503(h) == h = None

\* the connection state after require_pg()'s on-demand connect
AfterRequire ==
    IF NeedsConnect(pg)
    THEN try_connect_pg(PG_DSN, pgUp, siteTotal)
    ELSE ConnState(pg, pgClosed, pgTxn, siteTotal)

ConnectCalls == IF NeedsConnect(pg) THEN 1 ELSE 0

\* `with pg.cursor() as cur: cur.execute(...)` raises when the handle is
\* None (AttributeError), the connection is closed (InterfaceError) or its
\* transaction is aborted (InFailedSqlTransaction).
ExecuteRaises(c) == c.pg = None \/ c.closed \/ c.txn = "inerror"

\* the UNIQUE constraint on users.email
UniqueViolationNever(rows, email) == FALSE
UniqueViolation(rows, email) == \E u \in rows : u.email = email

\* ---- the counters -------------------------------------------------------
\* visit(): `if r:` picks the Redis key, `else:` the in-process counter
UsesCacheOrStore(cache, store) == cache # None \/ store # None
UsesCache(cache, store) == cache # None

\* memory_counters["visits_total"] += 1
minusOne(n) == n - 1
plusOne(n) == n + 1

\* r.incr("visits:total"): an absent key counts from 0
incrTwice(v) == IF v = NoRow THEN 2 ELSE v + 2
incr(v) == IF v = NoRow THEN 1 ELSE v + 1

\* UPDATE site_counters SET total=total+1 WHERE id=1 (no row: no change)
UpdateTotal(t) == IF t = NoRow THEN NoRow ELSE t + 1

\* ---- startup ------------------------------------------------------------
\* Lines 15-29 and 82-83: the configuration is read once, both connects are
\* tried once.  The database, the Redis key and the in-process counter
\* start empty.
Init ==
    /\ envPgDsn \in BOOLEAN
    /\ PG_DSN = envPgDsn
    /\ REDIS_URL \in BOOLEAN
    /\ pgUp \in BOOLEAN
    /\ redisUp \in BOOLEAN
    /\ LET c == try_connect_pg(PG_DSN, pgUp, NoRow)
       IN  /\ pg = c.pg
           /\ pgClosed = c.closed
           /\ pgTxn = c.txn
           /\ siteTotal = c.site
    /\ r = try_connect_redis(REDIS_URL, redisUp)
    /\ users = {}
    /\ nextId = 1
    /\ redisVal = NoRow
    /\ memory_counters = 0
    /\ resp = NoResponse
    /\ lastTotal = NoTotal
    /\ prevTotal = NoTotal

\* ---- GET /healthz -------------------------------------------------------
healthzBodyLive == [pgField |-> pgUp, redisField |-> redisUp]
healthzBody == [pgField |-> pg # None, redisField |-> r # None]

healthz ==
    /\ resp' = [NoResponse EXCEPT !.op = "healthz", !.status = 200, !.ok = TRUE,
                                  !.pgField = healthzBody.pgField,
                                  !.redisField = healthzBody.redisField]
    /\ UNCHANGED << envVars, pg, pgClosed, pgTxn, r, users, nextId, siteTotal,
                    redisVal, memory_counters, lastTotal,
                    prevTotal >>

\* ---- POST /auth/register ------------------------------------------------
register(email, password) ==
    LET c    == AfterRequire
        req  == [NoResponse EXCEPT !.op = "register", !.connects = ConnectCalls]
    IN  /\ nextId <= MaxId
        /\ pg' = c.pg
        /\ pgClosed' = c.closed
        /\ siteTotal' = c.site
        /\ UNCHANGED << envVars, r, redisVal, memory_counters, lastTotal,
                    prevTotal >>
        /\ IF Raises503(c.pg)
           THEN /\ resp' = [req EXCEPT !.status = 503]
                /\ UNCHANGED << pgTxn, users, nextId >>
           ELSE IF ExecuteRaises(c)
           THEN /\ resp' = [req EXCEPT !.status = 500]
                /\ pgTxn' = c.txn
                /\ UNCHANGED << users, nextId >>
           ELSE IF UniqueViolation(users, Lower(email))
           THEN \* the INSERT draws an id, fails, and nothing rolls back
                /\ resp' = [req EXCEPT !.status = 500]
                /\ pgTxn' = "inerror"
                /\ nextId' = nextId + 1
                /\ UNCHANGED users
           ELSE \E salt \in Salts :
                /\ users' = users \cup { [ id |-> nextId, email |-> Lower(email),
                                           password_hash |-> hashpw(password, salt) ] }
                /\ nextId' = nextId + 1
                /\ pgTxn' = "idle"        \* pg.commit()
                /\ resp' = [req EXCEPT !.status = 200, !.ok = TRUE]

\* ---- POST /auth/login ---------------------------------------------------
login(email, password) ==
    LET c    == AfterRequire
        req  == [NoResponse EXCEPT !.op = "login", !.connects = ConnectCalls]
        rows == { u \in users : u.email = Lower(email) }
    IN  /\ pg' = c.pg
        /\ pgClosed' = c.closed
        /\ siteTotal' = c.site
        /\ UNCHANGED << envVars, r, users, nextId, redisVal, memory_counters,
                        lastTotal,
                    prevTotal >>
        /\ IF Raises503(c.pg)
           THEN /\ resp' = [req EXCEPT !.status = 503]
                /\ UNCHANGED pgTxn
           ELSE IF ExecuteRaises(c)
           THEN /\ resp' = [req EXCEPT !.status = 500]
                /\ pgTxn' = c.txn
           ELSE \* the SELECT opens a transaction that nothing commits
                /\ pgTxn' = "intrans"
                /\ IF rows = {}
                   THEN resp' = [req EXCEPT !.status = 200, !.ok = FALSE]
                   ELSE LET row == CHOOSE u \in rows : TRUE
                        IN  IF ~checkpw(password, row.password_hash)
                            THEN resp' = [req EXCEPT !.status = 200, !.ok = FALSE]
                            ELSE resp' = [req EXCEPT !.status = 200, !.ok = TRUE,
                                                     !.uid = row.id]

\* ---- POST /metrics/visit ------------------------------------------------
\* The UPDATE half of visit(), run after the cache/in-process half succeeded.
visitStore(req) ==
    LET c == ConnState(pg, pgClosed, pgTxn, siteTotal)
    IN  IF pg = None
        THEN /\ resp' = [req EXCEPT !.status = 200, !.ok = TRUE]
             /\ UNCHANGED << pgTxn, siteTotal >>
        ELSE IF ExecuteRaises(c)
        THEN /\ resp' = [req EXCEPT !.status = 500]
             /\ UNCHANGED << pgTxn, siteTotal >>
        ELSE /\ siteTotal' = UpdateTotal(siteTotal)
             /\ pgTxn' = "idle"           \* pg.commit()
             /\ resp' = [req EXCEPT !.status = 200, !.ok = TRUE]

visit ==
    LET req == [NoResponse EXCEPT !.op = "visit"]
    IN  /\ memory_counters < MaxCount
        /\ redisVal < MaxCount
        /\ siteTotal < MaxCount
        /\ UNCHANGED << envVars, pg, pgClosed, r, users, nextId, lastTotal,
                    prevTotal >>
        /\ IF UsesCache(r, pg)
           THEN IF ~redisUp
                THEN \* r.incr raises redis.ConnectionError: nothing else runs
                     /\ resp' = [req EXCEPT !.status = 500]
                     /\ UNCHANGED << redisVal, memory_counters, pgTxn, siteTotal >>
                ELSE /\ redisVal' = incr(redisVal)
                     /\ UNCHANGED memory_counters
                     /\ visitStore(req)
           ELSE /\ memory_counters' = plusOne(memory_counters)
                /\ UNCHANGED redisVal
                /\ visitStore(req)

\* ---- GET /metrics/total -------------------------------------------------
\* total(): the answer and its source, or a raise, from the current state.
\* txn is the transaction status the handler leaves behind.
totalOutcome ==
    LET c == ConnState(pg, pgClosed, pgTxn, siteTotal)
        fromMemory(txn) == [status |-> 200, total |-> memory_counters,
                            src |-> "memory", txn |-> txn]
        fromStore ==
            IF pg = None THEN fromMemory(pgTxn)
            ELSE IF ExecuteRaises(c)
            THEN [status |-> 500, total |-> NoRow, src |-> "-", txn |-> pgTxn]
            ELSE IF siteTotal # NoRow
            THEN [status |-> 200, total |-> siteTotal, src |-> "pg",
                  txn |-> "intrans"]
            ELSE fromMemory("intrans")
    IN  IF r # None
        THEN IF ~redisUp
             THEN [status |-> 500, total |-> NoRow, src |-> "-", txn |-> pgTxn]
             ELSE IF redisVal # NoRow
             THEN [status |-> 200, total |-> redisVal, src |-> "redis",
                   txn |-> pgTxn]
             ELSE fromStore
        ELSE fromStore

total ==
    LET out == totalOutcome
    IN  /\ resp' = [NoResponse EXCEPT !.op = "total", !.status = out.status,
                                      !.total = out.total, !.src = out.src]
        /\ pgTxn' = out.txn
        /\ IF out.status = 200
           THEN /\ lastTotal' = [src |-> out.src, total |-> out.total]
                /\ prevTotal' = lastTotal
           ELSE UNCHANGED << lastTotal, prevTotal >>
        /\ UNCHANGED << envVars, pg, pgClosed, r, users, nextId, siteTotal,
                        redisVal, memory_counters >>

\* ---- the environment ----------------------------------------------------
\* The PostgreSQL server becomes unreachable: an open connection is broken
\* (the server drops its session and with it any open transaction).
EnvPgDown ==
    /\ pgUp
    /\ pgUp' = FALSE
    /\ pgClosed' = (pg # None)
    /\ pgTxn' = "idle"
    /\ UNCHANGED << envPgDsn, PG_DSN, REDIS_URL, redisUp, pg, r, users, nextId,
                    siteTotal, redisVal, memory_counters, resp, lastTotal,
                    prevTotal >>

EnvPgUp ==
    /\ ~pgUp
    /\ pgUp' = TRUE
    /\ UNCHANGED << envPgDsn, PG_DSN, REDIS_URL, redisUp, pg, pgClosed, pgTxn, r,
                    users, nextId, siteTotal, redisVal, memory_counters, resp,
                    lastTotal,
                    prevTotal >>

\* The Redis server becomes unreachable / reachable again; its data persist
\* (no external flush).  The client reconnects by itself on the next command.
EnvRedisDown ==
    /\ redisUp
    /\ redisUp' = FALSE
    /\ UNCHANGED << envPgDsn, PG_DSN, REDIS_URL, pgUp, pg, pgClosed, pgTxn, r,
                    users, nextId, siteTotal, redisVal, memory_counters, resp,
                    lastTotal,
                    prevTotal >>

EnvRedisUp ==
    /\ ~redisUp
    /\ redisUp' = TRUE
    /\ UNCHANGED << envPgDsn, PG_DSN, REDIS_URL, pgUp, pg, pgClosed, pgTxn, r,
                    users, nextId, siteTotal, redisVal, memory_counters, resp,
                    lastTotal,
                    prevTotal >>

\* PG_DSN is set in the process environment after the module was imported;
\* the module constant PG_DSN (line 17) was read once and does not follow.
EnvSetDsn ==
    /\ ~envPgDsn
    /\ envPgDsn' = TRUE
    /\ UNCHANGED << PG_DSN, REDIS_URL, pgUp, redisUp, pg, pgClosed, pgTxn, r,
                    users, nextId, siteTotal, redisVal, memory_counters, resp,
                    lastTotal,
                    prevTotal >>

Register == \E e \in Emails, p \in Passwords : register(e, p)
Login    == \E e \in Emails, p \in Passwords : login(e, p)

Next ==
    \/ healthz
    \/ Register
    \/ Login
    \/ visit
    \/ total
    \/ EnvPgDown
    \/ EnvPgUp
    \/ EnvRedisDown
    \/ EnvRedisUp
    \/ EnvSetDsn

Spec == Init /\ [][Next]_vars

\* ========================================================================
\* Claims
\* ========================================================================

RowsFor(email) == { u \in users : u.email = Lower(email) }

\* C2: a register that answers ok leaves a row for the lowercased e-mail
\* with a hash of that password on a usable, committed connection; and on
\* such a connection a login whose e-mail equals a registered one up to
\* letter case answers ok with the access_token cookie carrying that row's
\* id when the password is the registered one, and {ok: false} with no
\* cookie otherwise.
C2_RegisterThenLogin ==
    [][ \A e \in Emails, p \in Passwords :
          /\ (resp'.op = "register" /\ resp'.status = 200 /\ register(e, p))
                => /\ resp'.ok
                   /\ \E u \in users' : /\ u.email = Lower(e)
                                        /\ u.password_hash[2] = p
                   /\ pg' # None /\ ~pgClosed' /\ pgTxn' = "idle"
          /\ (resp'.op = "login" /\ pg # None /\ ~pgClosed /\ pgTxn # "inerror"
                 /\ login(e, p))
                => \A u \in RowsFor(e) :
                      /\ resp'.status = 200
                      /\ IF u.password_hash[2] = p
                         THEN resp'.ok /\ resp'.uid = u.id
                         ELSE ~resp'.ok /\ resp'.uid = NoUid
      ]_vars

\* C2 witness: a login was answered ok with the id of the row "ax", which
\* only e-mails spelled "Ax" or "aX" can have registered and looked up.
C2_Witness ==
    /\ resp.op = "login"
    /\ resp.status = 200
    /\ resp.ok
    /\ \E u \in users : u.id = resp.uid /\ u.email = << "a", "x" >>

\* C3: no two rows of users share a lowercased e-mail, and a register whose
\* e-mail equals an existing row's up to letter case ends in a server error
\* and adds no row.
C3_UniqueNormalizedEmail ==
    [][ /\ \A u, v \in users' : Lower(u.email) = Lower(v.email) => u = v
        /\ \A e \in Emails, p \in Passwords :
              (resp'.op = "register" /\ register(e, p)
                 /\ \E u \in users : Lower(u.email) = Lower(e))
                 => /\ resp'.status = 500
                    /\ ~resp'.ok
                    /\ users' = users
      ]_vars

\* C3 witness: a duplicate register just failed on the UNIQUE constraint.
C3_Witness ==
    /\ resp.op = "register"
    /\ resp.status = 500
    /\ pgTxn = "inerror"
    /\ users # {}

\* C4: register or login called while pg is unset makes exactly one
\* try_connect_pg() call; if no DSN is configured or the connect fails the
\* answer is 503, no row is added, no cookie is set and pg stays unset.
C4_UnavailableStoreIs503 ==
    [][ \A e \in Emails, p \in Passwords :
          (pg = None /\ (register(e, p) \/ login(e, p)))
             => /\ resp'.connects = 1
                /\ (~PG_DSN \/ ~pgUp)
                      => /\ resp'.status = 503
                         /\ users' = users
                         /\ resp'.uid = NoUid
                         /\ ~resp'.ok
                         /\ pg' = None
      ]_vars

\* C4 witness: a register was refused with 503 after one failed connect to
\* a configured store.
C4_Witness ==
    /\ resp.op = "register"
    /\ resp.status = 503
    /\ resp.connects = 1
    /\ PG_DSN
    /\ pg = None

\* C5 as stated: every operation that uses the relational store (register,
\* login, recordVisit, getTotal) reconnects when pg is unset, so once the
\* store is configured and reachable the very next such operation runs
\* against it.
C5_EveryOperationReconnects ==
    [][ (pg = None /\ envPgDsn /\ pgUp /\ (Register \/ Login \/ visit \/ total))
           => pg' # None
      ]_vars

\* C5 amended: register and login reconnect when pg is unset, so once a
\* store that was configured but unreachable at startup is reachable the
\* very next register or login runs against it; recordVisit and getTotal
\* never call connect and leave pg as it is; with no DSN at import pg
\* stays unset whatever the environment later holds.
C5_AuthReconnectsOnly ==
    [][ /\ (pg = None /\ PG_DSN /\ pgUp /\ (Register \/ Login))
            => /\ pg' # None
               /\ ~pgClosed'
               /\ resp'.connects = 1
               /\ resp'.status # 503
        /\ (resp'.op \in {"visit", "total"} /\ (visit \/ total))
            => /\ pg' = pg
               /\ resp'.connects = 0
        /\ ~PG_DSN => pg' = None
      ]_vars

\* C5 witness: a login connected on demand and was answered from the store.
C5_Witness ==
    /\ resp.op = "login"
    /\ resp.connects = 1
    /\ resp.status = 200
    /\ pg # None

\* C6 as stated: when a cache or store operation raises inside recordVisit
\* or getTotal, the endpoint still answers normally (200) and the failing
\* dependency's handle is downgraded to unset.
C6_CounterFaultsAreCaught ==
    [][ /\ (r # None /\ ~redisUp /\ (visit \/ total))
            => (resp'.status = 200 /\ r' = None)
        /\ (pg # None /\ (pgClosed \/ pgTxn = "inerror") /\ visit)
            => (resp'.status = 200 /\ pg' = None)
      ]_vars

\* C7 as stated: healthz reports pg and redis true exactly when the store
\* is configured and currently reachable.
C7_HealthzIsReachability ==
    [][ healthz => /\ resp'.status = 200
                   /\ resp'.ok
                   /\ resp'.pgField = (PG_DSN /\ pgUp)
                   /\ resp'.redisField = (REDIS_URL /\ redisUp)
      ]_vars

\* C7 amended: healthz always answers ok: true, with pg and redis true
\* exactly when the corresponding module-level handle is set.
C7_HealthzIsHandleState ==
    [][ healthz => /\ resp'.status = 200
                   /\ resp'.ok
                   /\ resp'.pgField = (pg # None)
                   /\ resp'.redisField = (r # None)
      ]_vars

\* C7 witness: healthz reported pg: true, redis: true while the store
\* connection was broken and the cache server was down.
C7_Witness ==
    /\ resp.op = "healthz"
    /\ resp.pgField
    /\ resp.redisField
    /\ pgClosed
    /\ ~redisUp

\* C8 as stated: recordVisit changes the in-process counter only when the
\* cache and the store are both unset; it is left unchanged whenever either
\* is set.
C8_MemoryOnlyWhenBothUnavailable ==
    [][ ((r # None \/ pg # None) /\ resp'.op = "visit" /\ visit)
           => memory_counters' = memory_counters
      ]_vars

\* C8 amended: recordVisit adds one to the in-process counter exactly when
\* the cache handle is unset, whatever the state of the store, and leaves
\* it unchanged when the cache handle is set.
C8_MemoryWhenCacheUnset ==
    [][ (resp'.op = "visit" /\ visit)
           => memory_counters' =
                 (IF r = None THEN memory_counters + 1 ELSE memory_counters)
      ]_vars

\* C8 witness: with no cache, visits counted in the store were counted in
\* the in-process counter too.
C8_Witness ==
    /\ resp.op = "visit"
    /\ resp.status = 200
    /\ r = None
    /\ pg # None
    /\ siteTotal = MaxCount
    /\ memory_counters = MaxCount

\* C9 as stated: after any handler has finished, normally or in a fault,
\* no transaction is open on the shared connection.
C9_NoOpenTransaction == pgTxn = "idle"

\* C10 as stated: the totals of successive getTotal answers never decrease.
C10_TotalsNeverDecrease ==
    prevTotal.src # "-" => lastTotal.total >= prevTotal.total

\* C10 amended: a getTotal answer is never lower than the previous getTotal
\* answer when both come from the same source (cache key, store row or
\* in-process counter).
C10_SameSourceNeverDecreases ==
    (prevTotal.src # "-" /\ prevTotal.src = lastTotal.src)
        => lastTotal.total >= prevTotal.total

\* C10 witness: two successive answers from the store row, the second one
\* higher.
C10_Witness ==
    /\ prevTotal.src = "pg"
    /\ lastTotal.src = "pg"
    /\ lastTotal.total > prevTotal.total

====
